---------------------------- MODULE Spec2Model ----------------------------
(***************************************************************************)
(* Light client remote data checker (substrate/client/src/light/fetcher.rs) *)
(*                                                                         *)
(* LightDataChecker holds a shared blockchain backend and an executor and  *)
(* answers three questions about data fetched from untrusted full nodes:   *)
(* check_header_proof, check_read_proof and check_execution_proof.  Each   *)
(* invocation is modelled as a caller thread that walks through the body   *)
(* of the function, one step per call it makes to a collaborator (backend, *)
(* trie proof verifier, hasher, execution-proof checker).                  *)
(***************************************************************************)
EXTENDS Integers, Sequences, FiniteSets, TLC

(***************************************************************************)
(* Bounds of the model.                                                    *)
(***************************************************************************)
\* Block numbers 0..MaxBlock exist (BlockNumber is a u64 in the source).
MaxBlock == 1
\* retry_count is None or Some(0..MaxRetry) (Option<usize> in the source).
MaxRetry == 0
\* A remote proof is a Vec<Vec<u8>> of at most MaxProofLen trie nodes.
MaxProofLen == 1
\* Number of caller threads that may hold an invocation at the same time.
NumThreads == 2

\* Number of consecutive block numbers one canonical hash trie covers.
ChtSize == 2

Threads == 1..NumThreads
BlockNumbers == 0..MaxBlock
ChtNumbers == 0..(MaxBlock \div ChtSize)
\* Keys of a trie: storage keys, and block numbers within one CHT range.
TrieKeys == 0..(ChtSize - 1)

(***************************************************************************)
(* Values: Option<T>, Result<T, E> and the client error kinds.             *)
(***************************************************************************)
None == [some |-> FALSE, v |-> 0]
Some(x) == [some |-> TRUE, v |-> x]

Ok(x) == [ok |-> TRUE, val |-> x]
Err(e) == [ok |-> FALSE, err |-> e]

\* BlockId::Number(n) / BlockId::Hash(h)
BlockIdNumber(n) == [tag |-> "Number", id |-> n]
BlockIdHash(h) == [tag |-> "Hash", id |-> h]
NoBlockId == [tag |-> "", id |-> 0]

\* ClientErrorKind::InvalidHeaderProof (a unit variant).
InvalidHeaderProof == [kind |-> "InvalidHeaderProof", block |-> NoBlockId, cause |-> ""]
\* ClientErrorKind::UnknownBlock(BlockId)
UnknownBlock(id) == [kind |-> "UnknownBlock", block |-> id, cause |-> ""]
\* The error a backend raises on its own (storage failure, malformed CHT leaf).
BackendError(what) == [kind |-> "Backend", block |-> NoBlockId, cause |-> what]
\* ClientError::from(e) for an error e of the state machine (trie proof
\* verifier, executor): the client error that wraps e.
ClientErrorFrom(e) == [kind |-> "VerificationFailure", block |-> NoBlockId, cause |-> e]

(***************************************************************************)
(* Tries, trie roots and the trie proof verifier.                          *)
(*                                                                         *)
(* A trie is a finite map from TrieKeys to leaf values (naturals): a key   *)
(* outside its domain is absent from the trie.                             *)
(***************************************************************************)
\* State tries of the modelled chain: storage at even and at odd blocks.
StateTrieA == (0 :> 2)
StateTrieB == (0 :> 4 @@ 1 :> 2)
StateTries == {StateTrieA, StateTrieB}

\* Leaf values (storage values, encoded header hashes) lie in 0..LeafSpace-2.
\* The CHT ranges span the block numbers 0..LastBlock.
LastBlock == (MaxBlock \div ChtSize + 1) * ChtSize - 1
LeafSpace == 2 * (LastBlock + 1) * Cardinality(StateTries) + 1

RECURSIVE Pow(_, _)
Pow(b, n) == IF n = 0 THEN 1 ELSE b * Pow(b, n - 1)

RECURSIVE SumOver(_, _)
SumOver(f, S) ==
    IF S = {} THEN 0
    ELSE LET k == CHOOSE x \in S : TRUE
         IN f[k] + SumOver(f, S \ {k})

\* The root hash committing to trie t: an injective digest of its content.
TrieRoot(t) ==
    1 + SumOver([k \in DOMAIN t |-> (t[k] + 1) * Pow(LeafSpace, k)], DOMAIN t)

StateRoots == {TrieRoot(t) : t \in StateTries}

\* A proof node: the preimages of the trie nodes on the path to `key` in
\* `trie`.  Its hash chain ends in TrieRoot(trie).
ProofNode(t, k) == [trie |-> t, key |-> k]

\* state_machine::read_proof_check(root, proof, key): the value bound to
\* key under root (Some), its proven absence (None), or an error when the
\* proof holds no path from root to key.
read_proof_check(root, proof, key) ==
    LET hits == {i \in 1..Len(proof) :
                    TrieRoot(proof[i].trie) = root /\ proof[i].key = key}
    IN IF hits = {} THEN Err("proof does not resolve")
       ELSE LET t == proof[CHOOSE i \in hits : TRUE].trie
            IN Ok(IF key \in DOMAIN t THEN Some(t[key]) ELSE None)

(***************************************************************************)
(* Headers and their hash.                                                 *)
(***************************************************************************)
Headers == [number : BlockNumbers, state_root : StateRoots]

Rank(r) == Cardinality({x \in StateRoots : x < r})

\* header.blake2_256(): the hash of the encoded header, collision-free over
\* Headers and compressed to 0..Cardinality(Headers)-1.
blake2_256(header) ==
    header.number * Cardinality(StateRoots) + Rank(header.state_root)

HeaderHashes == {blake2_256(h) : h \in Headers}

\* The canonical chain the backend was built from.
CanonicalHeader(n) ==
    [number |-> n,
     state_root |-> IF n % 2 = 0 THEN TrieRoot(StateTrieA) ELSE TrieRoot(StateTrieB)]

(***************************************************************************)
(* Blockchain storage backend (light::blockchain).                         *)
(***************************************************************************)
\* Encoding of a header hash as a CHT leaf and its decoder.
encode_cht_value(hash) == 2 * hash + 1

cht_decode_header_hash(value) ==
    IF value % 2 = 1 THEN Ok((value - 1) \div 2)
    ELSE Err(BackendError("malformed CHT value"))

\* The CHT of range c as built from the canonical chain.
CanonicalCht(c) ==
    [k \in TrieKeys |-> encode_cht_value(blake2_256(CanonicalHeader(c * ChtSize + k)))]
\* The same CHT when the last block of its range was never committed to it.
SparseCht(c) ==
    [k \in TrieKeys \ {ChtSize - 1} |-> CanonicalCht(c)[k]]
\* The same CHT with the leaf of its last block damaged.
CorruptCht(c) ==
    [CanonicalCht(c) EXCEPT ![ChtSize - 1] = @ - 1]

ChtTries(c) == {CanonicalCht(c), SparseCht(c), CorruptCht(c)}

\* storage().cht(block): the (root, key) pair of the CHT covering block.
cht(bc, block) ==
    LET c == block \div ChtSize
    IN IF c \in DOMAIN bc.chts
       THEN Ok([root |-> bc.chts[c], key |-> block % ChtSize])
       ELSE Err(UnknownBlock(BlockIdNumber(block)))

\* blockchain.header(BlockId::Hash(hash)): the stored header with that hash.
header(bc, hash) ==
    LET found == {h \in bc.headers : blake2_256(h) = hash}
    IN IF found = {} THEN Ok(None)
       ELSE Ok(Some(CHOOSE h \in found : TRUE))


(***************************************************************************)
(* Call executor and the execution-proof checker (light::call_executor).   *)
(***************************************************************************)
\* Entry points the runtime exports.
RuntimeMethods == {"get"}
Methods == RuntimeMethods \cup {"unknown"}

\* executor.call(method, call_data) over the storage view that `proof`
\* commits to under `root`: the entry point "get" reads the storage key
\* given as call data.  The result depends on the executor that ran it.
execute(exec, root, proof, method, call_data) ==
    IF method \notin RuntimeMethods
    THEN Err(ClientErrorFrom("method not found"))
    ELSE LET read == read_proof_check(root, proof, call_data)
         IN IF ~read.ok THEN Err(ClientErrorFrom(read.err))
            ELSE Ok([return_data |->
                        exec * LeafSpace + (IF read.val.some THEN read.val.v + 1 ELSE 0)])

\* light::call_executor::check_execution_proof(blockchain, executor, request,
\* remote_proof): re-executes the call at the state of the trusted header.
call_executor_check_execution_proof(bc, exec, request, remote_proof) ==
    LET local_header == header(bc, request.block)
    IN IF ~local_header.ok THEN Err(local_header.err)
       ELSE IF ~local_header.val.some
       THEN Err(UnknownBlock(BlockIdHash(request.block)))
       ELSE execute(exec, local_header.val.v.state_root, remote_proof,
                    request.method, request.call_data)

(***************************************************************************)
(* Requests and proofs a caller may hand to the checker.                   *)
(***************************************************************************)
RetryCounts == {None} \cup {Some(n) : n \in 0..MaxRetry}

\* RemoteHeaderRequest { block, retry_count }
RemoteHeaderRequest == [block : BlockNumbers, retry_count : RetryCounts]
\* RemoteReadRequest { block, key, retry_count }
RemoteReadRequest == [block : HeaderHashes, key : TrieKeys, retry_count : RetryCounts]
\* RemoteCallRequest { block, method, call_data, retry_count }
RemoteCallRequest ==
    [block : HeaderHashes, method : Methods, call_data : TrieKeys,
     retry_count : RetryCounts]

\* A CHT a dishonest peer builds for range 0 from headers off the canonical chain.
ForgedCht ==
    [k \in TrieKeys |->
        encode_cht_value(blake2_256(
            [number |-> k,
             state_root |-> CHOOSE r \in StateRoots : r # CanonicalHeader(k).state_root]))]

AllChtTries == UNION {ChtTries(c) : c \in ChtNumbers}

\* Tries a peer draws proof nodes from: every state trie, the CHTs the
\* backend trusts, and the forged CHT.
PeerTries(bc) ==
    StateTries
      \cup {t \in AllChtTries : \E c \in DOMAIN bc.chts : bc.chts[c] = TrieRoot(t)}
      \cup {ForgedCht}

ProofNodes(bc) == {ProofNode(t, k) : t \in PeerTries(bc), k \in TrieKeys}

SeqsUpTo(S, n) == UNION {[1..m -> S] : m \in 0..n}

RemoteProofs(bc) == SeqsUpTo(ProofNodes(bc), MaxProofLen)

(***************************************************************************)
(* State.                                                                  *)
(***************************************************************************)
VARIABLES
    blockchain,   \* LightDataChecker.blockchain: [chts, headers]
    executor,     \* LightDataChecker.executor
    call          \* call[t]: the invocation caller thread t holds

vars == <<blockchain, executor, call>>

NoHeader == [number |-> 0, state_root |-> 0]
NoRequest == [block |-> 0, retry_count |-> None]
NoLocals == [cht_root |-> 0, cht_key |-> 0, local_cht_value |-> 0,
             local_hash |-> 0, local_state_root |-> 0]
NoResult == Err([kind |-> "", block |-> NoBlockId, cause |-> ""])

Idle == [pc |-> "idle", op |-> "", request |-> NoRequest, header |-> NoHeader,
         remote_proof |-> <<>>, loc |-> NoLocals, result |-> NoResult,
         trace |-> <<>>]

\* One entry of an invocation's trace: a call to a collaborator.
Called(fn, root, key) == [fn |-> fn, root |-> root, key |-> key]

\* Backends the checker may be constructed over: every CHT range is either
\* not built yet or built (complete, sparse or damaged); the headers still
\* stored are the canonical ones from some block number on.
Backends ==
    {[chts |-> chts, headers |-> {CanonicalHeader(n) : n \in lo..MaxBlock}] :
        chts \in UNION {[D -> {TrieRoot(t) : t \in AllChtTries}] : D \in SUBSET ChtNumbers},
        lo \in 0..(MaxBlock + 1)}

WellBuilt(bc) ==
    \A c \in DOMAIN bc.chts : \E t \in ChtTries(c) : bc.chts[c] = TrieRoot(t)

\* LightDataChecker::new(blockchain, executor)
Init ==
    /\ blockchain \in {bc \in Backends : WellBuilt(bc)}
    /\ executor = 1
    /\ call = [t \in Threads |-> Idle]

(***************************************************************************)
(* Steps of an invocation.                                                 *)
(***************************************************************************)
Enter(t, op, request, hdr, remote_proof, pc) ==
    /\ call' = [call EXCEPT ![t] =
                  [Idle EXCEPT !.pc = pc, !.op = op, !.request = request,
                               !.header = hdr, !.remote_proof = remote_proof]]
    /\ UNCHANGED <<blockchain, executor>>

\* The invocation c goes on at pc, having made the call `called`.
Continue(c, pc, loc, called) ==
    [c EXCEPT !.pc = pc, !.loc = loc, !.trace = Append(@, called)]

\* The invocation c returns `result`, having made the call `called`.
Return(c, result, called) ==
    [c EXCEPT !.pc = "done", !.result = result, !.trace = Append(@, called)]

\* Step with the locals of the body kept in one scratch area of the checker
\* that all threads share.
StepSharedLocals(t, next) ==
    /\ call' = [u \in Threads |->
                   IF u = t THEN next
                   ELSE IF call[u].pc \in {"idle", "done"} THEN call[u]
                   ELSE [call[u] EXCEPT !.loc = next.loc]]
    /\ UNCHANGED <<blockchain, executor>>

\* Thread t's invocation becomes next; the checker is borrowed as &self,
\* so neither of its fields is assigned.
Step(t, next) ==
    /\ call' = [call EXCEPT ![t] = next]
    /\ UNCHANGED <<blockchain, executor>>

(***************************************************************************)
(* check_header_proof(&self, request, header, remote_proof)                *)
(***************************************************************************)
\* header_proof_cht with a failed lookup read as the default pair:
\* unwrap_or_default() in place of `?`.
header_proof_cht_or_default(bc, c) ==
    LET r == cht(bc, c.request.block)
        called == Called("cht", 0, c.request.block)
    IN Continue(c, "header_verify",
                [c.loc EXCEPT !.cht_root = IF r.ok THEN r.val.root ELSE 0,
                              !.cht_key = IF r.ok THEN r.val.key ELSE 0],
                called)

\* let (cht_root, cht_key) = self.blockchain.storage().cht(request.block)?;
header_proof_cht(bc, c) ==
    LET r == cht(bc, c.request.block)
        called == Called("cht", 0, c.request.block)
    IN IF ~r.ok THEN Return(c, Err(r.err), called)
       ELSE Continue(c, "header_verify",
                     [c.loc EXCEPT !.cht_root = r.val.root, !.cht_key = r.val.key],
                     called)

\* header_proof_verify with an absent leaf read as the default (empty)
\* value: unwrap_or_default() in place of ok_or_else(..)?.
header_proof_verify_absent_as_default(c) ==
    LET r == read_proof_check(c.loc.cht_root, c.remote_proof, c.loc.cht_key)
        called == Called("read_proof_check", c.loc.cht_root, c.loc.cht_key)
    IN IF ~r.ok THEN Return(c, Err(ClientErrorFrom(r.err)), called)
       ELSE Continue(c, "header_decode",
                     [c.loc EXCEPT !.local_cht_value = IF r.val.some THEN r.val.v ELSE 0],
                     called)

\* header_proof_verify with the verifier's own error dropped for
\* InvalidHeaderProof: map_err(|_| InvalidHeaderProof).
header_proof_verify_one_error(c) ==
    LET r == read_proof_check(c.loc.cht_root, c.remote_proof, c.loc.cht_key)
        called == Called("read_proof_check", c.loc.cht_root, c.loc.cht_key)
    IN IF ~r.ok THEN Return(c, Err(InvalidHeaderProof), called)
       ELSE IF ~r.val.some THEN Return(c, Err(InvalidHeaderProof), called)
       ELSE Continue(c, "header_decode",
                     [c.loc EXCEPT !.local_cht_value = r.val.v], called)

\* let local_cht_value = read_proof_check(cht_root.into(), remote_proof, &cht_key)
\*     .map_err(|e| ClientError::from(e))?;
\* let local_cht_value = local_cht_value.ok_or_else(|| InvalidHeaderProof)?;
header_proof_verify(c) ==
    LET r == read_proof_check(c.loc.cht_root, c.remote_proof, c.loc.cht_key)
        called == Called("read_proof_check", c.loc.cht_root, c.loc.cht_key)
    IN IF ~r.ok THEN Return(c, Err(ClientErrorFrom(r.err)), called)
       ELSE IF ~r.val.some THEN Return(c, Err(InvalidHeaderProof), called)
       ELSE Continue(c, "header_decode",
                     [c.loc EXCEPT !.local_cht_value = r.val.v], called)

\* let local_hash = self.blockchain.storage().cht_decode_header_hash(&local_cht_value)?;
header_proof_decode(c) ==
    LET r == cht_decode_header_hash(c.loc.local_cht_value)
        called == Called("cht_decode_header_hash", 0, c.loc.local_cht_value)
    IN IF ~r.ok THEN Return(c, Err(r.err), called)
       ELSE Continue(c, "header_compare", [c.loc EXCEPT !.local_hash = r.val], called)

\* header_proof_compare with the comparison made on the block number the
\* decoded hash belongs to, not on the hash.
header_proof_compare_by_number(c) ==
    LET remote_hash == blake2_256(c.header)
        called == Called("blake2_256", 0, remote_hash)
    IN IF c.loc.local_hash \div Cardinality(StateRoots) = c.header.number
       THEN Return(c, Ok(c.header), called)
       ELSE Return(c, Err(InvalidHeaderProof), called)

\* let remote_hash = header.blake2_256().into();
\* match local_hash == remote_hash { true => Ok(header), false => Err(InvalidHeaderProof) }
header_proof_compare(c) ==
    LET remote_hash == blake2_256(c.header)
        called == Called("blake2_256", 0, remote_hash)
    IN IF c.loc.local_hash = remote_hash
       THEN Return(c, Ok(c.header), called)
       ELSE Return(c, Err(InvalidHeaderProof), called)

(***************************************************************************)
(* check_read_proof(&self, request, remote_proof)                          *)
(***************************************************************************)
\* read_proof_header with a missing header read as the default header:
\* unwrap_or_default() in place of ok_or_else(..)?.
read_proof_header_or_default(bc, c) ==
    LET r == header(bc, c.request.block)
        called == Called("header", 0, c.request.block)
    IN IF ~r.ok THEN Return(c, Err(r.err), called)
       ELSE Continue(c, "read_verify",
                     [c.loc EXCEPT !.local_state_root =
                                       IF r.val.some THEN r.val.v.state_root ELSE 0],
                     called)

\* read_proof_header that gives up on a request whose retry budget is
\* Some(0), as if the budget were the checker's to spend.
read_proof_header_spends_retries(bc, c) ==
    LET r == header(bc, c.request.block)
        called == Called("header", 0, c.request.block)
    IN IF ~r.ok THEN Return(c, Err(r.err), called)
       ELSE IF ~r.val.some \/ c.request.retry_count = Some(0)
       THEN Return(c, Err(UnknownBlock(BlockIdHash(c.request.block))), called)
       ELSE Continue(c, "read_verify",
                     [c.loc EXCEPT !.local_state_root = r.val.v.state_root], called)

\* let local_header = self.blockchain.header(BlockId::Hash(request.block))?;
\* let local_header = local_header.ok_or_else(|| UnknownBlock(Hash(request.block)))?;
\* let local_state_root = local_header.state_root;
read_proof_header(bc, c) ==
    LET r == header(bc, c.request.block)
        called == Called("header", 0, c.request.block)
    IN IF ~r.ok THEN Return(c, Err(r.err), called)
       ELSE IF ~r.val.some
       THEN Return(c, Err(UnknownBlock(BlockIdHash(c.request.block))), called)
       ELSE Continue(c, "read_verify",
                     [c.loc EXCEPT !.local_state_root = r.val.v.state_root], called)

\* read_proof_verify against the root the proof itself was built for, not
\* the state root of the local header.
read_proof_verify_root_of_proof(c) ==
    LET root == IF c.remote_proof = <<>> THEN c.loc.local_state_root
                ELSE TrieRoot(c.remote_proof[1].trie)
        r == read_proof_check(root, c.remote_proof, c.request.key)
        called == Called("read_proof_check", root, c.request.key)
    IN IF ~r.ok THEN Return(c, Err(ClientErrorFrom(r.err)), called)
       ELSE Return(c, Ok(r.val), called)

\* read_proof_verify with a rejected proof read as "no value":
\* unwrap_or(None) in place of map_err(..).
read_proof_verify_or_none(c) ==
    LET r == read_proof_check(c.loc.local_state_root, c.remote_proof, c.request.key)
        called == Called("read_proof_check", c.loc.local_state_root, c.request.key)
    IN IF ~r.ok THEN Return(c, Ok(None), called)
       ELSE Return(c, Ok(r.val), called)

\* read_proof_verify that, the first time the verifier rejects the proof,
\* goes back to the header lookup and tries once more before giving up.
read_proof_verify_retry_once(c) ==
    LET r == read_proof_check(c.loc.local_state_root, c.remote_proof, c.request.key)
        called == Called("read_proof_check", c.loc.local_state_root, c.request.key)
    IN IF ~r.ok /\ Len(c.trace) < 2 THEN Continue(c, "read_header", c.loc, called)
       ELSE IF ~r.ok THEN Return(c, Err(ClientErrorFrom(r.err)), called)
       ELSE Return(c, Ok(r.val), called)

\* read_proof_check(local_state_root.0, remote_proof, &request.key).map_err(Into::into)
read_proof_verify(c) ==
    LET r == read_proof_check(c.loc.local_state_root, c.remote_proof, c.request.key)
        called == Called("read_proof_check", c.loc.local_state_root, c.request.key)
    IN IF ~r.ok THEN Return(c, Err(ClientErrorFrom(r.err)), called)
       ELSE Return(c, Ok(r.val), called)

(***************************************************************************)
(* check_execution_proof(&self, request, remote_proof)                     *)
(***************************************************************************)
\* execution_proof_delegate with a default-constructed executor in place of
\* the checker's own.
execution_proof_delegate_default_executor(bc, exec, c) ==
    Return(c, call_executor_check_execution_proof(bc, 0, c.request, c.remote_proof),
           Called("check_execution_proof", 0, c.request.block))

\* check_execution_proof(&*self.blockchain, &self.executor, request, remote_proof)
execution_proof_delegate(bc, exec, c) ==
    Return(c, call_executor_check_execution_proof(bc, exec, c.request, c.remote_proof),
           Called("check_execution_proof", 0, c.request.block))

(***************************************************************************)
(* Actions.                                                                *)
(***************************************************************************)
\* A caller hands a fetched header and its proof to check_header_proof.
check_header_proof(t, requests, headers, proofs) ==
    /\ call[t].pc = "idle"
    /\ \E request \in requests, hdr \in headers, remote_proof \in proofs :
          Enter(t, "check_header_proof", request, hdr, remote_proof, "header_cht")

\* A caller hands a read proof to check_read_proof.
check_read_proof(t, requests, proofs) ==
    /\ call[t].pc = "idle"
    /\ \E request \in requests, remote_proof \in proofs :
          Enter(t, "check_read_proof", request, NoHeader, remote_proof, "read_header")

\* A caller hands an execution proof to check_execution_proof.
check_execution_proof(t, requests, proofs) ==
    /\ call[t].pc = "idle"
    /\ \E request \in requests, remote_proof \in proofs :
          Enter(t, "check_execution_proof", request, NoHeader, remote_proof, "execution")

HeaderCht(t) ==
    /\ call[t].pc = "header_cht"
    /\ Step(t, header_proof_cht(blockchain, call[t]))

HeaderVerify(t) ==
    /\ call[t].pc = "header_verify"
    /\ Step(t, header_proof_verify(call[t]))

HeaderDecode(t) ==
    /\ call[t].pc = "header_decode"
    /\ Step(t, header_proof_decode(call[t]))

HeaderCompare(t) ==
    /\ call[t].pc = "header_compare"
    /\ Step(t, header_proof_compare(call[t]))

ReadHeader(t) ==
    /\ call[t].pc = "read_header"
    /\ Step(t, read_proof_header(blockchain, call[t]))

ReadVerify(t) ==
    /\ call[t].pc = "read_verify"
    /\ Step(t, read_proof_verify(call[t]))

Execution(t) ==
    /\ call[t].pc = "execution"
    /\ Step(t, execution_proof_delegate(blockchain, executor, call[t]))

\* The caller takes the ClientResult and drops the invocation.
TakeResult(t) ==
    /\ call[t].pc = "done"
    /\ Step(t, Idle)

\* A step of the invocation thread t holds.
Run(t) ==
    \/ HeaderCht(t)
    \/ HeaderVerify(t)
    \/ HeaderDecode(t)
    \/ HeaderCompare(t)
    \/ ReadHeader(t)
    \/ ReadVerify(t)
    \/ Execution(t)
    \/ TakeResult(t)

\* The body of the function invocation c is in, from its current position.
RECURSIVE RunToReturn(_, _, _)
RunToReturn(bc, exec, c) ==
    CASE c.pc = "header_cht" -> RunToReturn(bc, exec, header_proof_cht(bc, c))
      [] c.pc = "header_verify" -> RunToReturn(bc, exec, header_proof_verify(c))
      [] c.pc = "header_decode" -> RunToReturn(bc, exec, header_proof_decode(c))
      [] c.pc = "header_compare" -> RunToReturn(bc, exec, header_proof_compare(c))
      [] c.pc = "read_header" -> RunToReturn(bc, exec, read_proof_header(bc, c))
      [] c.pc = "read_verify" -> RunToReturn(bc, exec, read_proof_verify(c))
      [] c.pc = "execution" -> RunToReturn(bc, exec, execution_proof_delegate(bc, exec, c))
      [] OTHER -> c

\* The invocation c as it was when the caller made it.
AsCalled(c) ==
    [Idle EXCEPT !.pc = CASE c.op = "check_header_proof" -> "header_cht"
                         [] c.op = "check_read_proof" -> "read_header"
                         [] c.op = "check_execution_proof" -> "execution"
                         [] OTHER -> "idle",
                 !.op = c.op, !.request = c.request, !.header = c.header,
                 !.remote_proof = c.remote_proof]

(***************************************************************************)
(* Spec: a single caller that checks one answer after another, over every  *)
(* request, claimed header and proof of the bounded universe.              *)
(***************************************************************************)
Caller == CHOOSE t \in Threads : \A u \in Threads : t <= u

CallHeaderProof ==
    check_header_proof(Caller, RemoteHeaderRequest, Headers, RemoteProofs(blockchain))

CallReadProof ==
    check_read_proof(Caller, RemoteReadRequest, RemoteProofs(blockchain))

CallExecutionProof ==
    check_execution_proof(Caller, RemoteCallRequest, RemoteProofs(blockchain))

Next ==
    \/ CallHeaderProof
    \/ CallReadProof
    \/ CallExecutionProof
    \/ Run(Caller)

Spec == Init /\ [][Next]_vars

(***************************************************************************)
(* SpecConcurrent: every thread checks answers on the one shared checker,  *)
(* in any interleaving.  The threads draw from a pool of answers about     *)
(* block 0: its canonical header or a forged one, with a proof that holds  *)
(* the CHT node or the state node for key 0.                               *)
(***************************************************************************)
PoolBackend ==
    [chts |-> [c \in ChtNumbers |-> TrieRoot(CanonicalCht(c))],
     headers |-> {CanonicalHeader(n) : n \in BlockNumbers}]

PoolProofs ==
    {<<ProofNode(CanonicalCht(0), 0)>>, <<ProofNode(StateTrieA, 0)>>}

PoolHeaderRequests == {r \in RemoteHeaderRequest : r.block = 0}
PoolHeaders == {h \in Headers : h.number = 0}
PoolReadRequests ==
    {r \in RemoteReadRequest : r.block = blake2_256(CanonicalHeader(0)) /\ r.key = 0}
PoolCallRequests ==
    {r \in RemoteCallRequest :
        r.block = blake2_256(CanonicalHeader(0)) /\ r.method = "get" /\ r.call_data = 0}

InitConcurrent ==
    /\ blockchain = PoolBackend
    /\ executor = 1
    /\ call = [t \in Threads |-> Idle]

ConcurrentHeaderProof(t) ==
    check_header_proof(t, PoolHeaderRequests, PoolHeaders, PoolProofs)

ConcurrentReadProof(t) == check_read_proof(t, PoolReadRequests, PoolProofs)

ConcurrentExecutionProof(t) == check_execution_proof(t, PoolCallRequests, PoolProofs)

NextConcurrent ==
    \E t \in Threads :
        \/ ConcurrentHeaderProof(t)
        \/ ConcurrentReadProof(t)
        \/ ConcurrentExecutionProof(t)
        \/ Run(t)

SpecConcurrent == InitConcurrent /\ [][NextConcurrent]_vars

(***************************************************************************)
(* What the collaborators answer for an invocation c, used to state the    *)
(* properties below.                                                       *)
(***************************************************************************)
Returned(t, op) == call[t].pc = "done" /\ call[t].op = op

Consulted(c, fn) == \E i \in 1..Len(c.trace) : c.trace[i].fn = fn

\* The backend's answer to cht(request.block).
ChtOf(c) == cht(blockchain, c.request.block)
\* The backend has a CHT covering request.block.
Covered(c) == ChtOf(c).ok
\* The verifier's answer for the proof against that CHT.
ChtLeaf(c) == read_proof_check(ChtOf(c).val.root, c.remote_proof, ChtOf(c).val.key)
\* The verifier resolves the proof to a present leaf.
LeafPresent(c) == Covered(c) /\ ChtLeaf(c).ok /\ ChtLeaf(c).val.some
\* The backend's decoding of that leaf.
LeafHash(c) == cht_decode_header_hash(ChtLeaf(c).val.v)

\* C1: when the backend has a CHT for request.block, the verifier resolves
\* the proof to a present leaf and the backend decodes the leaf to a hash h,
\* check_header_proof returns Ok(claimed header) if h is the hash of the
\* claimed header and Err(InvalidHeaderProof) if it is not.
C1_HeaderDecisionRule ==
    \A t \in Threads :
        Returned(t, "check_header_proof") =>
            LET c == call[t]
            IN (LeafPresent(c) /\ LeafHash(c).ok) =>
                  c.result = IF LeafHash(c).val = blake2_256(c.header)
                             THEN Ok(c.header)
                             ELSE Err(InvalidHeaderProof)

\* A claimed header was accepted: the proof resolved to the leaf that
\* decodes to its hash.
C1_Witness ==
    \E t \in Threads :
        /\ Returned(t, "check_header_proof")
        /\ LeafPresent(call[t])
        /\ LeafHash(call[t]).ok
        /\ LeafHash(call[t]).val = blake2_256(call[t].header)
        /\ call[t].result = Ok(call[t].header)

C3_NoChtIsUnknownBlock ==
    \A t \in Threads :
        (call[t].op = "check_header_proof" /\ ~Covered(call[t])) =>
            /\ call[t].pc \in {"header_cht", "done"}
            /\ ~Consulted(call[t], "read_proof_check")
            /\ call[t].pc = "done" =>
                 /\ ~call[t].result.ok
                 /\ call[t].result.err.kind = "UnknownBlock"
                 /\ call[t].result = Err(ChtOf(call[t]).err)

\* check_header_proof returned for a block no CHT covers, with a proof that
\* holds a node and a canonical header as the claimed one.
C3_Witness ==
    \E t \in Threads :
        /\ Returned(t, "check_header_proof")
        /\ ~Covered(call[t])
        /\ call[t].remote_proof # <<>>
        /\ call[t].header = CanonicalHeader(call[t].request.block)
        /\ call[t].result.err.kind = "UnknownBlock"

\* C4: when the verifier accepts the proof against the CHT root and resolves
\* the CHT key to an absent leaf, check_header_proof returns
\* InvalidHeaderProof without decoding a leaf or hashing the claimed header.
C4_AbsentLeafIsInvalidHeaderProof ==
    \A t \in Threads :
        (call[t].op = "check_header_proof" /\ Covered(call[t])
            /\ ChtLeaf(call[t]).ok /\ ~ChtLeaf(call[t]).val.some) =>
            /\ call[t].pc \in {"header_cht", "header_verify", "done"}
            /\ ~Consulted(call[t], "cht_decode_header_hash")
            /\ ~Consulted(call[t], "blake2_256")
            /\ call[t].pc = "done" => call[t].result = Err(InvalidHeaderProof)

\* check_header_proof returned for a proof of absence: the trusted CHT does
\* not commit to the requested block.
C4_Witness ==
    \E t \in Threads :
        /\ Returned(t, "check_header_proof")
        /\ Covered(call[t])
        /\ ChtLeaf(call[t]).ok
        /\ ~ChtLeaf(call[t]).val.some
        /\ Consulted(call[t], "read_proof_check")
        /\ call[t].result = Err(InvalidHeaderProof)

\* The backend's answer to header(Hash(request.block)).
LocalHeader(c) == header(blockchain, c.request.block)
\* The backend holds a header for request.block.
HeaderKnown(c) == LocalHeader(c).ok /\ LocalHeader(c).val.some
\* The verifier's answer for the proof against that header's state root.
StateValue(c) ==
    read_proof_check(LocalHeader(c).val.v.state_root, c.remote_proof, c.request.key)

\* C5: when the backend holds no header for request.block, check_read_proof
\* returns UnknownBlock for that hash, for every key and proof, and the
\* trie proof verifier is never run.
C5_UnknownBlockBeforeVerifier ==
    \A t \in Threads :
        (call[t].op = "check_read_proof" /\ LocalHeader(call[t]) = Ok(None)) =>
            /\ call[t].pc \in {"read_header", "done"}
            /\ ~Consulted(call[t], "read_proof_check")
            /\ call[t].pc = "done" =>
                 call[t].result = Err(UnknownBlock(BlockIdHash(call[t].request.block)))

\* check_read_proof returned for an unknown block although the proof does
\* resolve the key under the state root of a header the peer knows.
C5_Witness ==
    \E t \in Threads :
        /\ Returned(t, "check_read_proof")
        /\ LocalHeader(call[t]) = Ok(None)
        /\ \E h \in Headers :
              /\ blake2_256(h) = call[t].request.block
              /\ read_proof_check(h.state_root, call[t].remote_proof,
                                  call[t].request.key).ok
        /\ call[t].result = Err(UnknownBlock(BlockIdHash(call[t].request.block)))

\* C6: when the backend holds a header for request.block, check_read_proof
\* returns what the verifier returns for (that header's state_root,
\* request.key, proof): Ok(Some(value)), Ok(None), or an error when the
\* verifier rejects; the verifier is only ever run on that state_root.
C6_ReadProofIsVerifierAnswer ==
    \A t \in Threads :
        (call[t].op = "check_read_proof" /\ HeaderKnown(call[t])) =>
            LET c == call[t]
            IN /\ \A i \in 1..Len(c.trace) :
                     c.trace[i].fn = "read_proof_check" =>
                        /\ c.trace[i].root = LocalHeader(c).val.v.state_root
                        /\ c.trace[i].key = c.request.key
               /\ c.pc = "done" =>
                     /\ Consulted(c, "read_proof_check")
                     /\ StateValue(c).ok => c.result = Ok(StateValue(c).val)
                     /\ ~StateValue(c).ok => ~c.result.ok

\* check_read_proof returned the value the proof binds to the key.
C6_Witness ==
    \E t \in Threads :
        /\ Returned(t, "check_read_proof")
        /\ HeaderKnown(call[t])
        /\ StateValue(call[t]).ok
        /\ StateValue(call[t]).val.some
        /\ call[t].result = Ok(Some(StateValue(call[t]).val.v))

\* The outcome of the execution-proof checker for invocation c.
Delegated(c) ==
    call_executor_check_execution_proof(blockchain, executor, c.request, c.remote_proof)

\* C7: a check returns Ok only if every step it performs succeeded: the CHT
\* lookup, the verifier, the leaf decoder and the hash comparison for a
\* header; the header lookup and the verifier for a read; the delegated
\* check for an execution.
C7_NoFailureDowngraded ==
    \A t \in Threads :
        (call[t].pc = "done" /\ call[t].result.ok) =>
            LET c == call[t]
            IN CASE c.op = "check_header_proof" ->
                      /\ LeafPresent(c)
                      /\ LeafHash(c).ok
                      /\ LeafHash(c).val = blake2_256(c.header)
                 [] c.op = "check_read_proof" ->
                      HeaderKnown(c) /\ StateValue(c).ok
                 [] c.op = "check_execution_proof" ->
                      Delegated(c).ok

\* A check whose proof resolved but whose leaf the backend could not decode
\* returned an error.
C7_Witness ==
    \E t \in Threads :
        /\ Returned(t, "check_header_proof")
        /\ LeafPresent(call[t])
        /\ ~LeafHash(call[t]).ok
        /\ ~call[t].result.ok

\* C10: check_execution_proof returns, unmodified, the outcome of the
\* execution-proof checker run with the checker's own blockchain and
\* executor and the caller's request and proof; it takes no claimed result,
\* and the outcome is an error when the block is unknown or the proof lacks
\* the nodes the call reads.
C10_ExecutionProofIsDelegated ==
    \A t \in Threads :
        Returned(t, "check_execution_proof") =>
            LET c == call[t]
            IN /\ c.result = Delegated(c)
               /\ c.header = NoHeader
               /\ ~HeaderKnown(c) => ~c.result.ok
               /\ (HeaderKnown(c) /\ ~read_proof_check(LocalHeader(c).val.v.state_root,
                                        c.remote_proof, c.request.call_data).ok)
                     => ~c.result.ok

\* check_execution_proof returned the re-executed result.
C10_Witness ==
    \E t \in Threads :
        /\ Returned(t, "check_execution_proof")
        /\ Delegated(call[t]).ok
        /\ call[t].result = Delegated(call[t])

\* Two requests agree on every field except possibly retry_count.
SameButRetry(r1, r2) ==
    [r1 EXCEPT !.retry_count = None] = [r2 EXCEPT !.retry_count = None]

\* C8: two invocations of the same check on the same backend, with the same
\* claimed answer and proof and with requests that agree except possibly in
\* retry_count, return the same outcome.
C8_DeterministicRetryAgnostic ==
    \A t, u \in Threads :
        (/\ call[t].pc = "done" /\ call[u].pc = "done"
         /\ call[t].op = call[u].op
         /\ call[t].header = call[u].header
         /\ call[t].remote_proof = call[u].remote_proof
         /\ SameButRetry(call[t].request, call[u].request))
            => call[t].result = call[u].result

\* Two threads hold returned read checks whose requests differ in
\* retry_count only, and both were given the proven value.
C8_Witness ==
    \E t, u \in Threads :
        /\ Returned(t, "check_read_proof") /\ Returned(u, "check_read_proof")
        /\ call[t].request.retry_count # call[u].request.retry_count
        /\ SameButRetry(call[t].request, call[u].request)
        /\ call[t].remote_proof = call[u].remote_proof
        /\ call[t].result.ok
        /\ call[t].result = call[u].result

\* C9: under any interleaving of checks on one checker, the backend and the
\* checker's fields stay as constructed, and each invocation is on its way
\* to (or has returned) the outcome it returns when run alone.
C9_ChecksDoNotInterfere ==
    /\ blockchain = PoolBackend
    /\ executor = 1
    /\ \A t \in Threads :
          call[t].pc # "idle" =>
              RunToReturn(blockchain, executor, call[t]).result
                  = RunToReturn(PoolBackend, 1, AsCalled(call[t])).result

\* One thread is between two steps of a header check while another has
\* returned from a read check with the value it is given when run alone.
C9_Witness ==
    \E t, u \in Threads :
        /\ call[t].pc = "header_decode"
        /\ Returned(u, "check_read_proof")
        /\ call[u].result.ok
        /\ call[u].result = RunToReturn(PoolBackend, 1, AsCalled(call[u])).result

(***************************************************************************)
(* The lifecycle of one invocation.                                        *)
(***************************************************************************)
\* The statements of each check's body, in program order, and the
\* collaborator each statement calls.
BodyOf(op) ==
    CASE op = "check_header_proof" ->
             <<"header_cht", "header_verify", "header_decode", "header_compare">>
      [] op = "check_read_proof" -> <<"read_header", "read_verify">>
      [] op = "check_execution_proof" -> <<"execution">>
      [] OTHER -> <<>>

CallsOf(op) ==
    CASE op = "check_header_proof" ->
             <<"cht", "read_proof_check", "cht_decode_header_hash", "blake2_256">>
      [] op = "check_read_proof" -> <<"header", "read_proof_check">>
      [] op = "check_execution_proof" -> <<"check_execution_proof">>
      [] OTHER -> <<>>

\* Lookups of stored data in the backend, as opposed to its leaf decoder.
BackendQueries == {"cht", "header"}

\* How many calls of the invocation c went to one of the functions fns.
Times(c, fns) == Cardinality({i \in 1..Len(c.trace) : c.trace[i].fn \in fns})

\* The answer is with the checker, no outcome yet.
Unverified(c) == c.pc \notin {"idle", "done"}
\* Ok was returned.
Verified(c) == c.pc = "done" /\ c.result.ok
\* An error was returned.
Rejected(c) == c.pc = "done" /\ ~c.result.ok

\* The i-th call of the invocation c gave the body what it needs to go on.
Succeeded(c, i) ==
    LET e == c.trace[i]
    IN CASE e.fn = "cht" -> cht(blockchain, e.key).ok
         [] e.fn = "header" ->
                header(blockchain, e.key).ok /\ header(blockchain, e.key).val.some
         [] e.fn = "read_proof_check" ->
                LET r == read_proof_check(e.root, c.remote_proof, e.key)
                IN r.ok /\ (c.op = "check_header_proof" => r.val.some)
         [] e.fn = "cht_decode_header_hash" -> cht_decode_header_hash(e.key).ok
         [] OTHER -> TRUE

\* The invocation c made again, over the same backend, with the same
\* claimed header and the same proof and the retry budget rc.
Reinvoked(c, rc) ==
    RunToReturn(blockchain, executor,
                AsCalled([c EXCEPT !.request = [@ EXCEPT !.retry_count = rc]]))

\* An invocation is on a straight line through its body: as many calls made
\* as statements passed, the backend queried and the verifier run at most
\* once each, no call made after one that failed, and a rejection that the
\* same header and proof meet again however often the caller retries.
SingleShot(c) ==
    /\ Len(c.trace) <= Len(CallsOf(c.op))
    /\ \A i \in 1..Len(c.trace) : c.trace[i].fn = CallsOf(c.op)[i]
    /\ Times(c, BackendQueries) <= 1
    /\ Times(c, {"read_proof_check"}) <= 1
    /\ \A fn \in {"cht_decode_header_hash", "blake2_256", "check_execution_proof"} :
          Times(c, {fn}) <= 1
    /\ Unverified(c) => /\ Len(c.trace) < Len(BodyOf(c.op))
                     /\ c.pc = BodyOf(c.op)[Len(c.trace) + 1]
    /\ c.pc = "done" => Len(c.trace) >= 1
    /\ \A i \in 1..(Len(c.trace) - 1) : Succeeded(c, i)
    /\ Rejected(c) => \A rc \in RetryCounts : Rejected(Reinvoked(c, rc))

\* A step leaves an outcome as it is until the caller takes it, moves an
\* unverified answer one statement on with the same request, header and
\* proof, and starts an invocation only at the top of a body.
OneWay(c, d) ==
    \/ d = c
    \/ /\ c.pc = "done"
       /\ d = Idle
    \/ /\ Unverified(c)
       /\ d.pc # "idle"
       /\ d.op = c.op /\ d.request = c.request /\ d.header = c.header
       /\ d.remote_proof = c.remote_proof
       /\ Len(d.trace) = Len(c.trace) + 1
       /\ SubSeq(d.trace, 1, Len(c.trace)) = c.trace
    \/ /\ c.pc = "idle"
       /\ Unverified(d)
       /\ d.trace = <<>>
       /\ d.pc = BodyOf(d.op)[1]

=============================================================================
